---- MODULE Spec2Model ----
(***************************************************************************)
(* Two-phase commit between a coordinator (src/coordinator_server.py) and  *)
(* the two account participants A and B (src/participant_server.py),       *)
(* talking through rpc_call (src/rpc_call.py) and the JSON-RPC route of    *)
(* BaseServer (src/base_server.py).                                        *)
(*                                                                         *)
(* Python values are modelled by records: a dict is a record, None is the  *)
(* record None_, a raised exception is Raised(e).  A dict whose insertion  *)
(* order matters (the coordinator's "responses") is a sequence of          *)
(* <<key, value>> pairs.  A timestamp is modelled by its age, which the   *)
(* code only compares with the timeout: 0 when taken, timeout + 1 once     *)
(* more than the timeout has passed.  Nothing in the code is forced to     *)
(* happen within a given time, so every set of overdue timestamps that is  *)
(* closed under "older than" is reached by letting the whole timeout pass  *)
(* at once (Tick) between the moments the timestamps are taken.            *)
(***************************************************************************)
EXTENDS Integers, Sequences, FiniteSets, TLC

\* ------------------------------------------------------------------ bounds
\* Number of transfer operations the clients issue in one behaviour.
MaxTransfers == 2

\* Number of incidents in one behaviour: an rpc_call that does not get its
\* answer, or a client calling propose_commit itself.
MaxIncidents == 1

\* Request-serving threads of the coordinator's Flask server.
Threads == {1, 2}

\* The transfers the clients ask for, <<account_id_from, amount>>: one that both
\* accounts can afford and one that would leave B below zero.
Requests == {<<"A", 100>>, <<"B", 400>>}


\* Balances the participants are started with (account_balance argument).
InitialBalance == [A |-> 500, B |-> 300]

\* The bonuses the clients ask for, bonus_percentage in hundredths (10 is 0.1):
\* an invalid one and a valid one; and the balances of the runs with bonuses.
BonusPercentages == {-10, 10}

BonusBalance == [A |-> 1000, B |-> 500]

\* Number of log records the participants write in one behaviour of direct
\* client calls before the clients stop calling.
MaxLog == 3

\* The transaction ids and balances the clients pass when they call a
\* participant's methods themselves.
CallIds == {0, 1}

CallBalances == {-50, 100}

\* ------------------------------------------------------- program constants
\* BaseServer.__init__: self.timeout = 3
timeout == 3

Accounts == {"A", "B"}

\* The nodes of cluster.json: the coordinator and one participant per account.
\* Each node runs in its own working directory and so has its own
\* server_log.json; a participant also has its own account.json.
Coordinator == "coordinator"

Nodes == Accounts \cup {Coordinator}

\* CoordinatorServer.transfer: participants = [server_A, server_B]
participants == <<"A", "B">>

\* ------------------------------------------------------------ Python values
None_ == [pytype |-> "NoneType"]

Raised(e) == [pytype |-> "exception", exc |-> e]

IsNone(v) == "pytype" \in DOMAIN v /\ v.pytype = "NoneType"

IsRaised(v) == "pytype" \in DOMAIN v /\ v.pytype = "exception"

\* dict.get(key, default)
Get(d, k, default) == IF k \in DOMAIN d THEN d[k] ELSE default

\* d[k] = v on a function used as a dict; del d[k]
Put(f, k, v) == [x \in (DOMAIN f) \cup {k} |-> IF x = k THEN v ELSE f[x]]

Remove(f, k) == [x \in (DOMAIN f) \ {k} |-> f[x]]

EmptyDict == [x \in {} |-> 0]

\* An insertion-ordered dict: d[k] = v keeps the place of an existing key.
DictSet(d, k, v) ==
    IF \E i \in 1..Len(d) : d[i][1] = k
    THEN [i \in 1..Len(d) |-> IF d[i][1] = k THEN <<k, v>> ELSE d[i]]
    ELSE Append(d, <<k, v>>)

\* dict.values(), in insertion order
DictValues(d) == [i \in 1..Len(d) |-> d[i][2]]

\* ------------------------------------------------------------------- state
VARIABLES
    accounts,                  \* account.json of each participant: account id -> balance
    participant_transactions,  \* ParticipantServer.transactions of each participant
    transaction_counter,       \* CoordinatorServer.transaction_counter
    transactions,              \* CoordinatorServer.transactions
    log,                       \* server_log.json of each node
    threads,                   \* the coordinator's request threads: position and locals
    job_errors,                \* scheduler jobs whose last run raised
    incidents,                 \* failed rpc_call invocations and direct propose_commit calls so far
    recoveries,                \* history: the recover() calls made, with the outcome of get_logs
    returned,                  \* history: the operations that returned, with their outcome
    committed_at,              \* history: <<account, id>> whose handle_commit wrote the ledger
    deleted,                   \* history: ids the coordinator deleted from its table
    no_votes,                  \* history: ids with a refused, timed-out or failed prepare
    aborts_sent                \* history: <<id, account>> of dispatched handle_abort calls

vars == <<accounts, participant_transactions, transaction_counter, transactions, log,
          threads, job_errors, incidents, recoveries, returned, committed_at, deleted, no_votes, aborts_sent>>

\* ---------------------------------------------------------------- the log
\* log_handler.log_event: the entry written (the wall-clock timestamp is left out)
LogEntry(state, account_id, account_balance, error) ==
    [state |-> state, account_id |-> account_id,
     account_balance |-> account_balance, error |-> error]

\* log_handler.write_log
write_log(lg, entry) == Append(lg, entry)

\* log_handler.log_event
log_event(lg, state, account_id, account_balance, error) ==
    write_log(lg, LogEntry(state, account_id, account_balance, error))

\* ------------------------------------------------------------------- RPC
\* What can happen to one rpc_call: "ok" the handler runs and its answer
\* arrives; "timeout" the handler runs but the answer is late; "lost" the
\* request is not answered in time and the handler never runs; "error" the
\* connection fails.
RpcOutcomes == {"ok", "timeout", "lost", "error"}

Delivered(o) == o \in {"ok", "timeout"}

\* The outcomes the next rpc_call can have, and the failures counted after it.
Possible == IF incidents < MaxIncidents THEN RpcOutcomes ELSE {"ok"}

Counted(o) == IF o = "ok" THEN incidents ELSE incidents + 1

\* BaseServer.register_routes.json_rpc: jsonify({"result": result, "error": None})
json_rpc(result) == [result |-> result, error |-> "null"]

\* rpc_call: the whole JSON body on success, None after a timeout (the except
\* branch only prints), RuntimeError on any other request failure.
rpc_call(o, handler_result) ==
    IF o = "ok" THEN json_rpc(handler_result)
    ELSE IF o \in {"timeout", "lost"} THEN None_
    ELSE Raised("RuntimeError")

\* ----------------------------------------------------------- participant
\* A handler call of a participant is one step: its reads and writes of the
\* pending votes, the ledger and the log are not interleaved with another call.
\* The state one handler call of participant a works on.
Node(a) == [account_id |-> a, balance |-> accounts[a],
            transactions |-> participant_transactions[a],
            log |-> log[a], ret |-> None_, applied |-> FALSE, effects |-> <<>>]

\* A handler call appends a record to the participant's server_log.json; the
\* call's writes to the log and to the ledger are kept in effects, in the order
\* the handler makes them.
append_log(st, state, account_balance, error) ==
    [st EXCEPT !.log = log_event(st.log, state, st.account_id, account_balance, error),
               !.effects = Append(@, [kind |-> "log", balance |-> account_balance])]

\* account_handler.update_account_balance
update_account_balance(st, new_balance) ==
    [st EXCEPT !.balance = new_balance,
               !.effects = Append(@, [kind |-> "ledger", balance |-> new_balance])]

\* ParticipantServer.get_balance
get_balance(st) == [st EXCEPT !.ret = st.balance]

\* A set_balance that writes the ledger first and logs afterwards.
set_balance_late(st, new_balance) ==
    LET written == update_account_balance(st, new_balance)
        logged == append_log(written, "commit", new_balance, "null")
    IN [logged EXCEPT !.ret = [message |-> "Account balance updated"]]

\* ParticipantServer.set_balance
set_balance(st, new_balance) ==
    LET logged == append_log(st, "commit", new_balance, "null")
        written == update_account_balance(logged, new_balance)
    IN [written EXCEPT !.ret = [message |-> "Account balance updated"]]

\* handle_prepare without the test of line 69: every proposed balance is
\* accepted as a pending vote.
handle_prepare_unchecked(st, new_balance, transaction_id) ==
    [append_log(st, "prepare", new_balance, "null")
        EXCEPT !.transactions = Put(st.transactions, transaction_id,
                                    [new_balance |-> new_balance, age |-> 0]),
               !.ret = [result |-> [canPrepare |-> TRUE], error |-> "null"]]

\* ParticipantServer.handle_prepare
handle_prepare(st, new_balance, transaction_id) ==
    IF new_balance < 0
    THEN [st EXCEPT !.ret = [result |-> [canPrepare |-> FALSE],
                             error |-> "Insufficient funds"]]
    ELSE [append_log(st, "prepare", new_balance, "null")
             EXCEPT !.transactions = Put(st.transactions, transaction_id,
                                         [new_balance |-> new_balance, age |-> 0]),
                    !.ret = [result |-> [canPrepare |-> TRUE], error |-> "null"]]

\* handle_commit without the del of line 87: the vote stays pending after it
\* was applied.
handle_commit_keeping(st, transaction_id) ==
    IF transaction_id \in DOMAIN st.transactions
    THEN LET new_balance == st.transactions[transaction_id].new_balance
             logged == append_log(st, "commit", new_balance, "null")
             written == set_balance(logged, new_balance)
         IN [written EXCEPT !.applied = TRUE,
                            !.ret = [result |-> [canCommit |-> TRUE]]]
    ELSE [st EXCEPT !.ret = [result |-> [canCommit |-> FALSE],
                             error |-> "Transaction not prepared"]]

\* ParticipantServer.handle_commit
handle_commit(st, transaction_id) ==
    IF transaction_id \in DOMAIN st.transactions
    THEN LET new_balance == st.transactions[transaction_id].new_balance
             logged == append_log(st, "commit", new_balance, "null")
             written == set_balance(logged, new_balance)
         IN [written EXCEPT !.transactions = Remove(st.transactions, transaction_id),
                            !.applied = TRUE,
                            !.ret = [result |-> [canCommit |-> TRUE]]]
    ELSE [st EXCEPT !.ret = [result |-> [canCommit |-> FALSE],
                             error |-> "Transaction not prepared"]]

\* handle_commit lines 83-86, up to the ledger write: the commit is logged and
\* set_balance writes the stored balance; the pending vote is still in the table.
handle_commit_write(st, transaction_id) ==
    IF transaction_id \in DOMAIN st.transactions
    THEN LET new_balance == st.transactions[transaction_id].new_balance
             logged == append_log(st, "commit", new_balance, "null")
             written == set_balance(logged, new_balance)
         IN [written EXCEPT !.applied = TRUE, !.ret = None_]
    ELSE [st EXCEPT !.ret = [result |-> [canCommit |-> FALSE],
                             error |-> "Transaction not prepared"]]

\* handle_commit lines 87-88: del self.transactions[transaction_id] raises
\* KeyError when the entry was removed since the test of line 83.
handle_commit_del(st, transaction_id) ==
    IF transaction_id \in DOMAIN st.transactions
    THEN [st EXCEPT !.transactions = Remove(st.transactions, transaction_id),
                    !.ret = [result |-> [canCommit |-> TRUE]]]
    ELSE [st EXCEPT !.ret = Raised("KeyError")]

\* What rpc_call gives the caller for a handler that returned or raised: json_rpc
\* answers an exception with status 500 (line 59), which raise_for_status turns
\* into RuntimeError (rpc_call lines 15, 19-20).
rpc_answer(o, handler_result) ==
    IF o = "ok" /\ IsRaised(handler_result) THEN Raised("RuntimeError")
    ELSE rpc_call(o, handler_result)

\* The transaction_id of a handle_abort call made without one (the default None).
NoId == -1

\* "if transaction_id:" (line 98) is false for None and for 0.
truthy(transaction_id) == transaction_id \notin {NoId, 0}

\* ParticipantServer.handle_abort
handle_abort(st, transaction_id) ==
    LET current_balance == get_balance(st).ret
        logged == append_log(st, "abort", current_balance, "Transaction aborted")
    IN [logged EXCEPT !.transactions = IF truthy(transaction_id)
                                       THEN Remove(st.transactions, transaction_id)
                                       ELSE EmptyDict,
                      !.ret = None_]

\* monitor_timeout with the comparison of line 47 turned around: the votes
\* younger than the timeout are taken for the overdue ones.
Overdue_reversed(pending) == {id \in DOMAIN pending : pending[id].age < timeout}

\* The pending votes of a participant that its monitor_timeout finds overdue.
Overdue(pending) == {id \in DOMAIN pending : pending[id].age > timeout}

\* ParticipantServer.monitor_timeout: handle_abort for every overdue vote
RECURSIVE abort_all(_, _)
abort_all(st, ids) ==
    IF ids = {} THEN st
    ELSE LET id == CHOOSE x \in ids : \A y \in ids : x <= y
         IN abort_all(handle_abort(st, id), ids \ {id})

participant_monitor_timeout(st) == abort_all(st, Overdue(st.transactions))

\* ----------------------------------------------------------- coordinator
\* Outcome strings of transfer (lines 85-92)
Success == "Transferred"
Aborted == "Failed to transfer. Transaction aborted."
TimedOut == "Failed to transfer because of timeout"
Failed == "Transfer failed"

\* Outcome strings of add_bonus (lines 109, 124-131)
BonusInvalid == "Failed to add bonus due to invalid bonus. Transaction aborted."
BonusSuccess == "Added bonus"
BonusAborted == "Failed to add bonus. Transaction aborted."
BonusTimedOut == "Failed to add bonus because of timeout"
BonusFailed == "Failed to add bonus. Error occured"

NoBalances == [A |-> 0, B |-> 0]

IdleThread == [pc |-> "idle", op |-> "none", account_id_from |-> "none", amount |-> 0,
               balance_A |-> 0, balance_B |-> 0, idx |-> 0, transaction_id |-> 0,
               transaction |-> [old_balances |-> NoBalances, new_balances |-> NoBalances],
               result |-> "none", faults |-> FALSE, prepare_fault |-> FALSE,
               opened |-> 0, bonus_percentage |-> 0, timed_out |-> FALSE,
               logs |-> <<>>]

\* transfer lines 70-78
old_balances(th) == [A |-> th.balance_A, B |-> th.balance_B]

\* add_bonus line 113: bonus_percentage * balance_A, in exact decimal arithmetic
\* (the inputs are chosen so that the product is a whole number).
bonus_amount(th) == (th.bonus_percentage * th.balance_A) \div 100

\* add_bonus line 108
invalid_bonus_accepted(bonus_percentage) == FALSE

invalid_bonus(bonus_percentage) == bonus_percentage < 0

\* transfer lines 70-77; add_bonus line 114
new_balances(th) ==
    IF th.op = "add_bonus"
    THEN [A |-> th.balance_A + bonus_amount(th), B |-> th.balance_B + bonus_amount(th)]
    ELSE IF th.account_id_from = "A"
    THEN [A |-> th.balance_A - th.amount, B |-> th.balance_B + th.amount]
    ELSE [A |-> th.balance_A + th.amount, B |-> th.balance_B - th.amount]

\* all(response["result"]["canPrepare"] for response in values [if "result" in response]):
\* "True", "False", or the exception the generator raises.  filtered is TRUE for
\* process_prepare_responses (lines 177-181) and FALSE for transfer (line 84).
RECURSIVE all_canPrepare(_, _)
all_canPrepare(values, filtered) ==
    IF values = <<>> THEN "True"
    ELSE LET response == Head(values)
         IN IF IsNone(response) THEN "TypeError"
            ELSE IF "result" \notin DOMAIN response
                 THEN IF filtered THEN all_canPrepare(Tail(values), filtered)
                      ELSE "KeyError"
            ELSE IF IsNone(response.result) THEN "TypeError"
            ELSE IF "canPrepare" \notin DOMAIN response.result THEN "KeyError"
            ELSE IF response.result.canPrepare
                 THEN all_canPrepare(Tail(values), filtered)
                 ELSE "False"

\* transfer lines 82-92, run once propose_prepare has returned: the table is
\* read at the current value of the shared counter.
transfer_result(txs, counter) ==
    IF counter \notin DOMAIN txs THEN Failed
    ELSE LET verdict == all_canPrepare(DictValues(txs[counter].responses), FALSE)
         IN IF verdict = "True" THEN Success
            ELSE IF verdict = "False" THEN Aborted
            ELSE IF verdict = "TimeoutError" THEN TimedOut
            ELSE Failed

\* add_bonus lines 120-131 are transfer's lines 82-92 with other messages.
bonus_result(result) ==
    IF result = Success THEN BonusSuccess
    ELSE IF result = Aborted THEN BonusAborted
    ELSE IF result = TimedOut THEN BonusTimedOut
    ELSE IF result = Failed THEN BonusFailed
    ELSE result

\* The operation returns result: the thread's locals are gone with it.
Finish(th, result) ==
    [th EXCEPT !.pc = "returned",
               !.result = IF th.op = "add_bonus" THEN bonus_result(result) ELSE result]

\* The operation a thread serves continues after propose_commit / propose_abort
\* returned ret: a transfer goes on at line 82, a direct call answers ret.
after_propose(th, txs, counter, ret) ==
    IF th.op \in {"transfer", "add_bonus"} THEN Finish(th, transfer_result(txs, counter))
    ELSE Finish(th, ret)

\* propose_abort lines 224-230: look the transaction up, log abort for the first
\* participant; the thread is then about to send handle_abort.
enter_propose_abort(th, transaction_id, txs, lg, counter) ==
    IF transaction_id \notin DOMAIN txs
    THEN [thread |-> after_propose(th, txs, counter, "None"), log |-> lg]
    ELSE [thread |-> [th EXCEPT !.pc = "abort", !.idx = 1,
                                !.transaction_id = transaction_id,
                                !.transaction = [old_balances |-> txs[transaction_id].old_balances,
                                                 new_balances |-> txs[transaction_id].new_balances]],
          log |-> log_event(lg, "abort", participants[1],
                            txs[transaction_id].old_balances[participants[1]], "null")]

\* A propose_commit that sends handle_commit to the first participant without
\* the log_event of line 201.
enter_propose_commit_unlogged(th, transaction_id, txs, lg, counter) ==
    IF transaction_id \notin DOMAIN txs
    THEN [thread |-> after_propose(th, txs, counter, "False"), log |-> lg]
    ELSE [thread |-> [th EXCEPT !.pc = "commit", !.idx = 1,
                                !.transaction_id = transaction_id,
                                !.transaction = [old_balances |-> txs[transaction_id].old_balances,
                                                 new_balances |-> txs[transaction_id].new_balances]],
          log |-> lg]

\* propose_commit lines 194-201: look the transaction up, log commit for the
\* first participant; the thread is then about to send handle_commit.
enter_propose_commit(th, transaction_id, txs, lg, counter) ==
    IF transaction_id \notin DOMAIN txs
    THEN [thread |-> after_propose(th, txs, counter, "False"), log |-> lg]
    ELSE [thread |-> [th EXCEPT !.pc = "commit", !.idx = 1,
                                !.transaction_id = transaction_id,
                                !.transaction = [old_balances |-> txs[transaction_id].old_balances,
                                                 new_balances |-> txs[transaction_id].new_balances]],
          log |-> log_event(lg, "commit", participants[1],
                            txs[transaction_id].new_balances[participants[1]], "null")]

\* process_prepare_responses: commit when every recorded vote is yes, else abort;
\* an exception of the vote count leaves propose_prepare and transfer catches it.
process_prepare_responses(th, transaction_id, txs, lg, counter) ==
    IF transaction_id \notin DOMAIN txs
    THEN [thread |-> after_propose(th, txs, counter, "None"), log |-> lg]
    ELSE LET all_prepared == all_canPrepare(DictValues(txs[transaction_id].responses), TRUE)
         IN IF all_prepared = "True"
            THEN enter_propose_commit(th, transaction_id, txs, lg, counter)
            ELSE IF all_prepared = "False"
            THEN enter_propose_abort(th, transaction_id, txs, lg, counter)
            ELSE [thread |-> Finish(th, Failed), log |-> lg]

\* The response propose_prepare records for a participant (lines 152-163):
\* the answer of rpc_call, or a no vote when rpc_call raised.
recorded_response(response) ==
    IF IsRaised(response)
    THEN [result |-> [canPrepare |-> FALSE], error |-> response.exc]
    ELSE response

\* A propose_commit that does not look at the answer of handle_commit.
commit_assumed(response) == TRUE

\* propose_commit line 204: response["result"].get("canCommit", False); a
\* subscript of None raises and the except branch counts it as a failure.
commit_acknowledged(response) ==
    IF IsRaised(response) \/ IsNone(response) THEN FALSE
    ELSE IF "result" \notin DOMAIN response THEN FALSE
    ELSE IF IsNone(response.result) THEN FALSE
    ELSE Get(response.result, "canCommit", FALSE)

\* ----------------------------------------------------------------- recover
\* A Python str, as met when a dict is iterated: its keys.
Str(x) == [pytype |-> "str", value |-> x]

IsStr(v) == "pytype" \in DOMAIN v /\ v.pytype = "str"

\* A Python list.
List(items) == [pytype |-> "list", items |-> items]

\* "for log in logs" (lines 118-119) over what rpc_call returned: logs is the
\* whole JSON body {"result": [...], "error": None}, and iterating a dict yields
\* its keys; None is not iterable.
iterate(logs) ==
    IF IsNone(logs) THEN Raised("TypeError")
    ELSE List(<<Str("result"), Str("error")>>)

\* relevant_logs (lines 118-119): the commit records of the account; log["account_id"]
\* on a str raises TypeError.
RECURSIVE relevant_logs(_, _)
relevant_logs(items, account_id) ==
    IF items = <<>> THEN List(<<>>)
    ELSE IF IsStr(Head(items)) THEN Raised("TypeError")
    ELSE LET rest == relevant_logs(Tail(items), account_id)
         IN IF IsRaised(rest) THEN rest
            ELSE IF Head(items).account_id = account_id /\ Head(items).state = "commit"
            THEN List(<<Head(items)>> \o rest.items)
            ELSE rest

\* recover lines 121-130: write each balance to the ledger and log "recovered".
RECURSIVE replay(_, _)
replay(st, records) ==
    IF records = <<>> THEN st
    ELSE LET new_balance == Head(records).account_balance
             written == update_account_balance(st, new_balance)
         IN replay(append_log(written, "recovered", new_balance, "null"), Tail(records))

\* A recover that takes the records out of the answer and applies each commit
\* record's balance on top of the ledger instead of writing it.
RECURSIVE add_up(_, _)
add_up(st, records) ==
    IF records = <<>> THEN st
    ELSE add_up([st EXCEPT !.balance = @ + Head(records).account_balance],
                Tail(records))

recover_adding(st, logs) ==
    IF IsRaised(logs) \/ IsNone(logs) THEN st
    ELSE add_up(st, relevant_logs(logs.result, st.account_id).items)

\* ParticipantServer.recover, given what rpc_call(coordinator, "get_logs") returned:
\* every exception is caught and printed (line 136).
recover(st, logs) ==
    IF IsRaised(logs) THEN st
    ELSE LET iterated == iterate(logs)
         IN IF IsRaised(iterated) THEN st
            ELSE LET relevant == relevant_logs(iterated.items, st.account_id)
                 IN IF IsRaised(relevant) THEN st
                    ELSE replay(st, relevant.items)

\* ------------------------------------------------------------------ Init
Init ==
    /\ accounts = InitialBalance
    /\ participant_transactions = [a \in Accounts |-> EmptyDict]
    /\ transaction_counter = 0
    /\ transactions = EmptyDict
    /\ log = [n \in Nodes |-> <<>>]
    /\ threads = [t \in Threads |-> IdleThread]
    /\ job_errors = {}
    /\ incidents = 0
    /\ recoveries = {}
    /\ returned = {}
    /\ committed_at = {}
    /\ deleted = {}
    /\ no_votes = {}
    /\ aborts_sent = {}

\* Transfers begun so far: those already opened and those still reading balances.
Begun ==
    transaction_counter
    + Cardinality({t \in Threads : threads[t].pc \in {"read_A", "read_B", "open"}})

\* The lowest free request thread takes the next call (the threads are alike).
Free(t) ==
    /\ threads[t].pc = "idle"
    /\ \A u \in Threads : threads[u].pc = "idle" => t <= u

\* Thread t is left in state th; an operation that returned goes on record and
\* frees the thread.
Step(t, th) ==
    /\ threads' = [threads EXCEPT ![t] = IF th.pc = "returned" THEN IdleThread ELSE th]
    /\ returned' = IF th.pc = "returned"
                   THEN returned \cup {[op |-> th.op, account_id_from |-> th.account_id_from,
                                        amount |-> th.amount, balance_A |-> th.balance_A,
                                        balance_B |-> th.balance_B, opened |-> th.opened,
                                        faults |-> th.faults,
                                        prepare_fault |-> th.prepare_fault,
                                        bonus_percentage |-> th.bonus_percentage,
                                        timed_out |-> th.timed_out,
                                        result |-> th.result]}
                   ELSE returned

\* The participant state a handler call leaves behind.
Store(a, st) ==
    /\ accounts' = [accounts EXCEPT ![a] = st.balance]
    /\ participant_transactions' = [participant_transactions EXCEPT ![a] = st.transactions]

\* The logs after a handler call of participant a and the coordinator's appends.
Logs(a, st, coordinator_log) == [log EXCEPT ![a] = st.log, ![Coordinator] = coordinator_log]

\* ------------------------------------------------- coordinator operations
\* A client calls transfer(account_id_from, account_id_to, amount): lines 54-64.
StartTransfer(t) ==
    /\ Free(t)
    /\ Begun < MaxTransfers
    /\ \E request \in Requests :
         Step(t, [IdleThread EXCEPT !.pc = "read_A", !.op = "transfer",
                                    !.account_id_from = request[1],
                                    !.amount = request[2]])
    /\ UNCHANGED <<recoveries, accounts, participant_transactions, transaction_counter, transactions,
                   log, job_errors, incidents, committed_at, deleted, no_votes, aborts_sent>>

\* A client calls add_bonus(bonus_percentage): lines 94-109; a negative
\* percentage is answered at once.
StartBonus(t) ==
    /\ Free(t)
    /\ Begun < MaxTransfers
    /\ \E bonus_percentage \in BonusPercentages :
         LET th == [IdleThread EXCEPT !.op = "add_bonus",
                                      !.bonus_percentage = bonus_percentage]
         IN Step(t, IF invalid_bonus(bonus_percentage)
                    THEN Finish(th, BonusInvalid)
                    ELSE [th EXCEPT !.pc = "read_A"])
    /\ UNCHANGED <<recoveries, accounts, participant_transactions, transaction_counter, transactions,
                   log, job_errors, incidents, committed_at, deleted, no_votes, aborts_sent>>

\* A balance read that takes a missing answer for the balance 0 and goes on.
ReadBalance_lenient(t) ==
    /\ threads[t].pc \in {"read_A", "read_B"}
    /\ \E o \in Possible :
         LET th == [threads[t] EXCEPT !.faults = @ \/ o # "ok"]
             a == IF th.pc = "read_A" THEN "A" ELSE "B"
             response == rpc_call(o, get_balance(Node(a)).ret)
             balance == IF IsRaised(response) \/ IsNone(response) THEN 0
                        ELSE response.result
         IN /\ Step(t, IF a = "A"
                       THEN [th EXCEPT !.pc = "read_B", !.balance_A = balance]
                       ELSE [th EXCEPT !.pc = "open", !.balance_B = balance])
            /\ incidents' = Counted(o)
    /\ UNCHANGED <<recoveries, accounts, participant_transactions, transaction_counter, transactions,
                   log, job_errors, committed_at, deleted, no_votes, aborts_sent>>

\* transfer lines 67-68 and add_bonus lines 111-112:
\* rpc_call(server, "get_balance")["result"]; None after a
\* timeout is not subscriptable, so every failure ends in "except Exception".
ReadBalance(t) ==
    /\ threads[t].pc \in {"read_A", "read_B"}
    /\ \E o \in Possible :
         LET th == threads[t]
             a == IF th.pc = "read_A" THEN "A" ELSE "B"
             response == rpc_call(o, get_balance(Node(a)).ret)
         IN /\ Step(t, IF IsRaised(response) \/ IsNone(response)
                       THEN Finish([th EXCEPT !.faults = TRUE,
                                              !.timed_out = IsNone(response)], Failed)
                       ELSE IF a = "A"
                       THEN [th EXCEPT !.pc = "read_B", !.balance_A = response.result]
                       ELSE [th EXCEPT !.pc = "open", !.balance_B = response.result])
            /\ incidents' = Counted(o)
    /\ UNCHANGED <<recoveries, accounts, participant_transactions, transaction_counter, transactions,
                   log, job_errors, committed_at, deleted, no_votes, aborts_sent>>

\* propose_prepare lines 137-147: take the next id, record the transaction, log
\* prepare for the first participant.
OpenTransaction(t) ==
    /\ threads[t].pc = "open"
    /\ LET th == threads[t]
           id == transaction_counter + 1
       IN /\ transaction_counter' = id
          /\ transactions' = Put(transactions, id,
                                 [responses |-> <<>>,
                                  old_balances |-> old_balances(th),
                                  new_balances |-> new_balances(th),
                                  age |-> 0])
          /\ log' = [log EXCEPT ![Coordinator] =
                        log_event(@, "prepare", participants[1],
                                  new_balances(th)[participants[1]], "null")]
          /\ Step(t, [th EXCEPT !.pc = "prepare", !.idx = 1, !.opened = id])
    /\ UNCHANGED <<recoveries, accounts, participant_transactions, job_errors, incidents,
                   committed_at, deleted, no_votes, aborts_sent>>

\* propose_prepare lines 137-147 up to the first half of write_log (lines
\* 13-14): the thread has taken its id, recorded the transaction and read
\* server_log.json into its local list logs; the file is not locked.
OpenRead(t) ==
    /\ threads[t].pc = "open"
    /\ LET th == threads[t]
           id == transaction_counter + 1
       IN /\ transaction_counter' = id
          /\ transactions' = Put(transactions, id,
                                 [responses |-> <<>>,
                                  old_balances |-> old_balances(th),
                                  new_balances |-> new_balances(th),
                                  age |-> 0])
          /\ Step(t, [th EXCEPT !.pc = "open_log", !.opened = id,
                                !.logs = log[Coordinator]])
    /\ UNCHANGED <<recoveries, accounts, participant_transactions, log, job_errors, incidents,
                   committed_at, deleted, no_votes, aborts_sent>>

\* The second half of that write_log (lines 16-19): the entry is appended to the
\* list read before and the file is rewritten with the list.
OpenWrite(t) ==
    /\ threads[t].pc = "open_log"
    /\ LET th == threads[t]
       IN /\ log' = [log EXCEPT ![Coordinator] =
                        log_event(th.logs, "prepare", participants[1],
                                  new_balances(th)[participants[1]], "null")]
          /\ Step(t, [th EXCEPT !.pc = "prepare", !.idx = 1, !.logs = <<>>])
    /\ UNCHANGED <<recoveries, accounts, participant_transactions, transaction_counter,
                   transactions, job_errors, incidents, committed_at, deleted, no_votes,
                   aborts_sent>>

\* propose_prepare lines 148-165 for one participant: handle_prepare is called
\* with the current value of the shared counter and the answer is recorded under
\* it; then prepare is logged for the next participant, or the votes are counted.
Prepare(t) ==
    /\ threads[t].pc = "prepare"
    /\ \E o \in Possible :
         LET th == [threads[t] EXCEPT !.faults = @ \/ o # "ok",
                                      !.prepare_fault = @ \/ o # "ok",
                                      !.timed_out = @ \/ o \in {"timeout", "lost"}]
             a == participants[th.idx]
             id == transaction_counter
             st == IF Delivered(o)
                   THEN handle_prepare(Node(a), new_balances(th)[a], id)
                   ELSE Node(a)
             response == rpc_call(o, st.ret)
             txs == IF id \in DOMAIN transactions
                    THEN [transactions EXCEPT ![id].responses =
                             DictSet(@, a, recorded_response(response))]
                    ELSE transactions
             next == IF id \notin DOMAIN transactions
                     THEN [thread |-> Finish(th, Failed), log |-> log[Coordinator]]
                     ELSE IF th.idx < Len(participants)
                     THEN [thread |-> [th EXCEPT !.idx = th.idx + 1],
                           log |-> log_event(log[Coordinator], "prepare",
                                             participants[th.idx + 1],
                                             new_balances(th)[participants[th.idx + 1]],
                                             "null")]
                     ELSE process_prepare_responses(th, id, txs, log[Coordinator], id)
         IN /\ Store(a, st)
            /\ transactions' = txs
            /\ log' = Logs(a, st, next.log)
            /\ Step(t, next.thread)
            /\ incidents' = Counted(o)
            /\ no_votes' = IF o # "ok" \/ new_balances(th)[a] < 0
                           THEN no_votes \cup {id} ELSE no_votes
    /\ UNCHANGED <<recoveries, transaction_counter, job_errors, committed_at, deleted,
                   aborts_sent>>

\* propose_commit lines 202-218 for one participant.
Commit(t) ==
    /\ threads[t].pc = "commit"
    /\ \E o \in Possible :
         LET th == [threads[t] EXCEPT !.faults = @ \/ o # "ok"]
             a == participants[th.idx]
             id == th.transaction_id
             st == IF Delivered(o) THEN handle_commit(Node(a), id) ELSE Node(a)
             response == rpc_call(o, st.ret)
             success == commit_acknowledged(response)
             last == th.idx = Len(participants)
             txs == IF success /\ last THEN Remove(transactions, id) ELSE transactions
             next == IF ~success
                     THEN enter_propose_abort(th, id, transactions, log[Coordinator],
                                              transaction_counter)
                     ELSE IF ~last
                     THEN [thread |-> [th EXCEPT !.idx = th.idx + 1],
                           log |-> log_event(log[Coordinator], "commit",
                                             participants[th.idx + 1],
                                             th.transaction.new_balances[participants[th.idx + 1]],
                                             "null")]
                     ELSE IF id \notin DOMAIN transactions
                     THEN [thread |-> Finish(th, Failed), log |-> log[Coordinator]]
                     ELSE [thread |-> after_propose(th, txs, transaction_counter, "True"),
                           log |-> log[Coordinator]]
         IN /\ Store(a, st)
            /\ transactions' = txs
            /\ log' = Logs(a, st, next.log)
            /\ Step(t, next.thread)
            /\ incidents' = Counted(o)
            /\ committed_at' = IF st.applied THEN committed_at \cup {<<a, id>>}
                               ELSE committed_at
            /\ deleted' = IF success /\ last /\ id \in DOMAIN transactions
                          THEN deleted \cup {id} ELSE deleted
    /\ UNCHANGED <<recoveries, transaction_counter, job_errors, no_votes, aborts_sent>>

\* A propose_abort whose handle_abort call is outside the try of lines 231-237:
\* a call that fails or gets no answer ends propose_abort there, the remaining
\* participants are not contacted and the record stays in the table.
Abort_stopping(t) ==
    /\ threads[t].pc = "abort"
    /\ \E o \in Possible :
         LET th == [threads[t] EXCEPT !.faults = @ \/ o # "ok"]
             a == participants[th.idx]
             id == th.transaction_id
             st == IF Delivered(o) THEN handle_abort(Node(a), id) ELSE Node(a)
             last == th.idx = Len(participants) \/ o # "ok"
             txs == IF last /\ o = "ok" THEN Remove(transactions, id) ELSE transactions
         IN /\ Store(a, st)
            /\ transactions' = txs
            /\ log' = Logs(a, st,
                            IF last THEN log[Coordinator]
                            ELSE log_event(log[Coordinator], "abort",
                                           participants[th.idx + 1],
                                           th.transaction.old_balances[participants[th.idx + 1]],
                                           "null"))
            /\ Step(t, IF o # "ok" THEN Finish(th, Failed)
                       ELSE IF last THEN after_propose(th, txs, transaction_counter, "None")
                       ELSE [th EXCEPT !.idx = th.idx + 1])
            /\ incidents' = Counted(o)
            /\ aborts_sent' = aborts_sent \cup {<<id, a>>}
            /\ deleted' = IF last /\ o = "ok" /\ id \in DOMAIN transactions
                          THEN deleted \cup {id} ELSE deleted
    /\ UNCHANGED <<recoveries, transaction_counter, job_errors, committed_at, no_votes>>

\* propose_abort lines 231-241 for one participant: every outcome of the call is
\* swallowed; after the last participant the record is deleted if still there.
Abort(t) ==
    /\ threads[t].pc = "abort"
    /\ \E o \in Possible :
         LET th == [threads[t] EXCEPT !.faults = @ \/ o # "ok"]
             a == participants[th.idx]
             id == th.transaction_id
             st == IF Delivered(o) THEN handle_abort(Node(a), id) ELSE Node(a)
             last == th.idx = Len(participants)
             txs == IF last THEN Remove(transactions, id) ELSE transactions
         IN /\ Store(a, st)
            /\ transactions' = txs
            /\ log' = Logs(a, st,
                            IF last THEN log[Coordinator]
                            ELSE log_event(log[Coordinator], "abort",
                                           participants[th.idx + 1],
                                           th.transaction.old_balances[participants[th.idx + 1]],
                                           "null"))
            /\ Step(t, IF last THEN after_propose(th, txs, transaction_counter, "None")
                       ELSE [th EXCEPT !.idx = th.idx + 1])
            /\ incidents' = Counted(o)
            /\ aborts_sent' = aborts_sent \cup {<<id, a>>}
            /\ deleted' = IF last /\ id \in DOMAIN transactions
                          THEN deleted \cup {id} ELSE deleted
    /\ UNCHANGED <<recoveries, transaction_counter, job_errors, committed_at, no_votes>>

\* propose_commit line 203 reaching the participant, whose handle_commit runs up
\* to the ledger write (lines 83-86) while other calls and the timeout job of the
\* participant can still run before it goes on: the handlers take no lock.
CommitWrite(t) ==
    /\ threads[t].pc = "commit"
    /\ LET th == threads[t]
           a == participants[th.idx]
           id == th.transaction_id
           st == handle_commit_write(Node(a), id)
       IN /\ id \in DOMAIN participant_transactions[a]
          /\ Store(a, st)
          /\ log' = [log EXCEPT ![a] = st.log]
          /\ Step(t, [th EXCEPT !.pc = "commit_del"])
          /\ committed_at' = committed_at \cup {<<a, id>>}
    /\ UNCHANGED <<recoveries, transaction_counter, transactions, job_errors, incidents,
                   deleted, no_votes, aborts_sent>>

\* The rest of that handle_commit (lines 87-88) and of propose_commit's loop
\* body for the participant (lines 204-218).
CommitDel(t) ==
    /\ threads[t].pc = "commit_del"
    /\ \E o \in Possible \cap {"ok", "timeout"} :
         LET th == [threads[t] EXCEPT !.faults = @ \/ o # "ok"]
             a == participants[th.idx]
             id == th.transaction_id
             st == handle_commit_del(Node(a), id)
             response == rpc_answer(o, st.ret)
             success == commit_acknowledged(response)
             last == th.idx = Len(participants)
             txs == IF success /\ last THEN Remove(transactions, id) ELSE transactions
             next == IF ~success
                     THEN enter_propose_abort(th, id, transactions, log[Coordinator],
                                              transaction_counter)
                     ELSE IF ~last
                     THEN [thread |-> [th EXCEPT !.pc = "commit", !.idx = th.idx + 1],
                           log |-> log_event(log[Coordinator], "commit",
                                             participants[th.idx + 1],
                                             th.transaction.new_balances[participants[th.idx + 1]],
                                             "null")]
                     ELSE IF id \notin DOMAIN transactions
                     THEN [thread |-> Finish(th, Failed), log |-> log[Coordinator]]
                     ELSE [thread |-> after_propose(th, txs, transaction_counter, "True"),
                           log |-> log[Coordinator]]
         IN /\ Store(a, st)
            /\ transactions' = txs
            /\ log' = Logs(a, st, next.log)
            /\ Step(t, next.thread)
            /\ incidents' = Counted(o)
            /\ deleted' = IF success /\ last /\ id \in DOMAIN transactions
                          THEN deleted \cup {id} ELSE deleted
    /\ UNCHANGED <<recoveries, transaction_counter, job_errors, committed_at, no_votes,
                   aborts_sent>>

\* A client calls the registered method propose_commit(transaction_id) (line 33)
\* for a transaction of the table.
CallProposeCommit(t) ==
    /\ Free(t)
    /\ incidents < MaxIncidents
    /\ incidents' = incidents + 1
    /\ \E id \in DOMAIN transactions :
         LET th == [IdleThread EXCEPT !.op = "propose_commit"]
             next == enter_propose_commit(th, id, transactions, log[Coordinator],
                                          transaction_counter)
         IN /\ Step(t, next.thread)
            /\ log' = [log EXCEPT ![Coordinator] = next.log]
    /\ UNCHANGED <<recoveries, accounts, participant_transactions, transaction_counter, transactions,
                   job_errors, committed_at, deleted, no_votes, aborts_sent>>

\* A client calls propose_commit(transaction_id) once, while the rpc_calls of
\* the commit and abort phases can fail like any other.
ProposeCommitCall(t) ==
    /\ Free(t)
    /\ \A u \in Threads : threads[u].op # "propose_commit"
    /\ \A r \in returned : r.op # "propose_commit"
    /\ \E id \in DOMAIN transactions :
         LET th == [IdleThread EXCEPT !.op = "propose_commit"]
             next == enter_propose_commit(th, id, transactions, log[Coordinator],
                                          transaction_counter)
         IN /\ Step(t, next.thread)
            /\ log' = [log EXCEPT ![Coordinator] = next.log]
    /\ UNCHANGED <<recoveries, accounts, participant_transactions, transaction_counter, transactions,
                   job_errors, incidents, committed_at, deleted, no_votes, aborts_sent>>

\* ------------------------------------------------------------ timeout jobs
\* The transactions the coordinator's monitor_timeout finds overdue (lines 40-44).
Stalled == {id \in DOMAIN transactions :
               transactions[id].responses = <<>> /\ transactions[id].age > timeout}

\* CoordinatorServer.monitor_timeout: for the first overdue transaction it calls
\* self.handle_abort, which CoordinatorServer does not define: the job raises
\* AttributeError and the table is left as it was.
CoordinatorMonitorTimeout ==
    /\ Stalled # {}
    /\ job_errors' = job_errors \cup {"coordinator"}
    /\ UNCHANGED <<recoveries, accounts, participant_transactions, transaction_counter, transactions,
                   log, threads, incidents, returned, committed_at, deleted,
                   no_votes, aborts_sent>>

\* ParticipantServer.monitor_timeout of participant a.
ParticipantMonitorTimeout(a) ==
    /\ Overdue(participant_transactions[a]) # {}
    /\ LET st == participant_monitor_timeout(Node(a))
       IN /\ Store(a, st)
          /\ log' = [log EXCEPT ![a] = st.log]
    /\ UNCHANGED <<recoveries, transaction_counter, transactions, threads, job_errors, incidents,
                   returned, committed_at, deleted, no_votes, aborts_sent>>

\* More than the timeout passes: every timestamp taken so far is overdue.
Older(age) == timeout + 1

Tick ==
    /\ \/ \E id \in DOMAIN transactions : transactions[id].age <= timeout
       \/ \E a \in Accounts : \E id \in DOMAIN participant_transactions[a] :
             participant_transactions[a][id].age <= timeout
    /\ transactions' = [id \in DOMAIN transactions |->
                           [transactions[id] EXCEPT !.age = Older(@)]]
    /\ participant_transactions' =
          [a \in Accounts |->
              [id \in DOMAIN participant_transactions[a] |->
                  [participant_transactions[a][id] EXCEPT !.age = Older(@)]]]
    /\ UNCHANGED <<recoveries, accounts, transaction_counter, log, threads, job_errors, incidents,
                   returned, committed_at, deleted, no_votes, aborts_sent>>

\* A client calls recover() on participant a (once per participant in a behaviour).
Recover(a) ==
    /\ \A r \in recoveries : r.account_id # a
    /\ \E o \in Possible :
         LET st == recover(Node(a), rpc_call(o, log[Coordinator]))
         IN /\ Store(a, st)
            /\ log' = [log EXCEPT ![a] = st.log]
            /\ incidents' = Counted(o)
            /\ recoveries' = recoveries \cup {[account_id |-> a, outcome |-> o]}
    /\ UNCHANGED <<transaction_counter, transactions, threads, job_errors, returned,
                   committed_at, deleted, no_votes, aborts_sent>>

\* ----------------------------------------- direct calls of a participant
\* The clients go on calling while the participants' logs are short.
Calling == Len(log["A"]) + Len(log["B"]) < MaxLog

\* The state a direct handler call of participant a leaves behind.
Called(a, st) ==
    /\ Store(a, st)
    /\ log' = [log EXCEPT ![a] = st.log]
    /\ UNCHANGED <<recoveries, transaction_counter, transactions, threads, job_errors,
                   incidents, returned, deleted, no_votes, aborts_sent>>

\* A client calls the registered method set_balance(new_balance) of participant a.
SetBalanceCall(a) ==
    /\ Calling
    /\ \E new_balance \in CallBalances : Called(a, set_balance(Node(a), new_balance))
    /\ UNCHANGED committed_at

\* A client calls handle_prepare(new_balance, transaction_id) of participant a.
HandlePrepareCall(a) ==
    /\ Calling
    /\ \E new_balance \in CallBalances : \E transaction_id \in CallIds :
          Called(a, handle_prepare(Node(a), new_balance, transaction_id))
    /\ UNCHANGED committed_at

\* A client calls handle_commit(transaction_id) of participant a.
HandleCommitCall(a) ==
    /\ Calling
    /\ \E transaction_id \in CallIds :
          LET st == handle_commit(Node(a), transaction_id)
          IN /\ Called(a, st)
             /\ committed_at' = IF st.applied THEN committed_at \cup {<<a, transaction_id>>}
                                ELSE committed_at

\* A client calls handle_abort of participant a, with a transaction id or without.
HandleAbortCall(a) ==
    /\ Calling
    /\ \E transaction_id \in CallIds \cup {NoId} :
          Called(a, handle_abort(Node(a), transaction_id))
    /\ UNCHANGED committed_at

Next ==
    \/ \E t \in Threads : StartTransfer(t)
    \/ \E t \in Threads : ReadBalance(t)
    \/ \E t \in Threads : OpenTransaction(t)
    \/ \E t \in Threads : Prepare(t)
    \/ \E t \in Threads : Commit(t)
    \/ \E t \in Threads : Abort(t)
    \/ \E t \in Threads : CallProposeCommit(t)
    \/ CoordinatorMonitorTimeout
    \/ \E a \in Accounts : ParticipantMonitorTimeout(a)
    \/ Tick

Spec == Init /\ [][Next]_vars

\* The same system with clients that also call recover() on the participants.
NextRecover ==
    \/ Next
    \/ \E a \in Accounts : Recover(a)

SpecRecover == Init /\ [][NextRecover]_vars

\* The system with one client call of propose_commit that is not counted as an
\* incident, so that a handle_commit or handle_abort call can fail after it.
NextCommit ==
    \/ \E t \in Threads : StartTransfer(t)
    \/ \E t \in Threads : ReadBalance(t)
    \/ \E t \in Threads : OpenTransaction(t)
    \/ \E t \in Threads : Prepare(t)
    \/ \E t \in Threads : Commit(t)
    \/ \E t \in Threads : Abort(t)
    \/ \E t \in Threads : ProposeCommitCall(t)
    \/ CoordinatorMonitorTimeout
    \/ \E a \in Accounts : ParticipantMonitorTimeout(a)
    \/ Tick

SpecCommit == Init /\ [][NextCommit]_vars

\* The system with handle_commit also running in two steps, so that the
\* participant's timeout job or another handler call can come in between.
NextRace ==
    \/ Next
    \/ \E t \in Threads : CommitWrite(t)
    \/ \E t \in Threads : CommitDel(t)

SpecRace == Init /\ [][NextRace]_vars

\* The system with the write_log of propose_prepare's first log_event also
\* running in two steps (read the file, rewrite the file), so that another
\* thread of the coordinator can append in between.
NextLog ==
    \/ Next
    \/ \E t \in Threads : OpenRead(t)
    \/ \E t \in Threads : OpenWrite(t)

SpecLog == Init /\ [][NextLog]_vars

\* Two participants whose registered methods are called by clients directly,
\* with their timeout jobs running.
NextParticipant ==
    \/ \E a \in Accounts : SetBalanceCall(a)
    \/ \E a \in Accounts : HandlePrepareCall(a)
    \/ \E a \in Accounts : HandleCommitCall(a)
    \/ \E a \in Accounts : HandleAbortCall(a)
    \/ \E a \in Accounts : Recover(a)
    \/ \E a \in Accounts : ParticipantMonitorTimeout(a)
    \/ Tick

SpecParticipant == Init /\ [][NextParticipant]_vars

\* The same system with clients that also call add_bonus, started with the
\* balances 1000 and 500.
InitBonus ==
    /\ accounts = BonusBalance
    /\ participant_transactions = [a \in Accounts |-> EmptyDict]
    /\ transaction_counter = 0
    /\ transactions = EmptyDict
    /\ log = [n \in Nodes |-> <<>>]
    /\ threads = [t \in Threads |-> IdleThread]
    /\ job_errors = {}
    /\ incidents = 0
    /\ recoveries = {}
    /\ returned = {}
    /\ committed_at = {}
    /\ deleted = {}
    /\ no_votes = {}
    /\ aborts_sent = {}

NextBonus ==
    \/ Next
    \/ \E t \in Threads : StartBonus(t)

SpecBonus == InitBonus /\ [][NextBonus]_vars

\* The scheduler runs each participant's monitor_timeout job every 3 seconds and
\* time goes on.
FairSpec ==
    /\ Spec
    /\ WF_vars(Tick)
    /\ \A a \in Accounts : WF_vars(ParticipantMonitorTimeout(a))

\* Every request thread goes on with the operation it serves, and the
\* coordinator's scheduler runs its monitor_timeout job every 3 seconds too.
FairSpecProgress ==
    /\ FairSpec
    /\ WF_vars(CoordinatorMonitorTimeout)
    /\ \A t \in Threads :
          /\ WF_vars(ReadBalance(t))
          /\ WF_vars(OpenTransaction(t))
          /\ WF_vars(Prepare(t))
          /\ WF_vars(Commit(t))
          /\ WF_vars(Abort(t))

\* ================================================================== claims
\* A step in which thread t returns from the operation it serves.
Returning(t) == threads[t].pc # "idle" /\ threads'[t].pc = "idle"

Pending(a) == DOMAIN participant_transactions[a]

\* The commit records of account a in a log, in log order.
CommitRecords(lg, a) ==
    SelectSeq(lg, LAMBDA entry : entry.account_id = a /\ entry.state = "commit")

\* C1: once the coordinator has deleted a transaction from its table, either
\* every participant's ledger was written by the transaction's handle_commit or
\* no participant's ledger was.
C1_UniformOutcome ==
    \A id \in deleted :
        \/ \A a \in Accounts : <<a, id>> \in committed_at
        \/ \A a \in Accounts : <<a, id>> \notin committed_at

\* C2: a transaction for which some prepare was refused, timed out or failed
\* never has a handle_commit write a balance at any participant.
C2_NoVoteNoCommit ==
    \A id \in no_votes : \A a \in Accounts : <<a, id>> \notin committed_at

\* C3: a transfer that runs alone, with every rpc_call answered and both
\* proposed balances >= 0, returns with the ledgers at the proposed balances and
\* with the coordinator's table and both participants' pending votes empty.
C3_TransferScenario ==
    [][\A t \in Threads :
          (/\ Returning(t)
           /\ threads[t].op = "transfer"
           /\ ~threads[t].faults
           /\ incidents' = 0
           /\ transaction_counter' = 1
           /\ returned = {}
           /\ \A u \in Threads \ {t} : threads[u].pc = "idle"
           /\ \A a \in Accounts : new_balances(threads[t])[a] >= 0)
          => (/\ accounts' = new_balances(threads[t])
              /\ transactions' = EmptyDict
              /\ \A a \in Accounts : participant_transactions'[a] = EmptyDict)]_vars

\* C5: every pending vote carries a balance >= 0, every ledger write of a
\* handle_commit writes a balance >= 0, and no step of handle_prepare,
\* handle_commit, handle_abort or monitor_timeout takes a ledger from >= 0 to < 0.
C5_NeverNegative ==
    [][\A a \in Accounts :
          /\ \A id \in DOMAIN participant_transactions'[a] :
                participant_transactions'[a][id].new_balance >= 0
          /\ accounts[a] >= 0 => accounts'[a] >= 0
          /\ \A id \in 1..transaction_counter :
                (<<a, id>> \in committed_at' /\ <<a, id>> \notin committed_at)
                => accounts'[a] >= 0]_vars

\* C5 witness: a transaction in which a negative balance was refused had its
\* other vote committed to the ledger.
C5_Witness ==
    \E id \in no_votes : \E a \in Accounts :
        /\ <<a, id>> \in committed_at
        /\ accounts[a] # InitialBalance[a]
        /\ accounts[a] >= 0

\* C6: transfer returns the success outcome exactly for a transaction that was
\* committed on every participant.
C6_SuccessIffCommitted ==
    \A r \in returned :
        r.op = "transfer" =>
           (r.result = Success
            <=> (r.opened # 0 /\ \A a \in Accounts : <<a, r.opened>> \in committed_at))

\* C7: a transfer one of whose prepare calls timed out or raised has taken the
\* abort path when it returns: abort was sent to every participant and the
\* transaction record is deleted.
C7_PrepareFaultAborts ==
    \A r \in returned :
        (r.op = "transfer" /\ r.prepare_fault) =>
           /\ r.opened \in deleted
           /\ \A a \in Accounts : <<r.opened, a>> \in aborts_sent

\* C8: a run of the coordinator's monitor_timeout sends abort to the participants
\* of every transaction without responses that is older than the timeout, and
\* removes it from the table.
C8_SweepAborts ==
    [][CoordinatorMonitorTimeout =>
          \A id \in Stalled :
              /\ id \notin DOMAIN transactions'
              /\ \A a \in Accounts : <<id, a>> \in aborts_sent']_vars

\* C9: every pending vote is eventually removed; the participant's
\* monitor_timeout removes the overdue votes and leaves the ledger as it is; a
\* ledger is only written by a handle_commit for a vote that is still pending,
\* so a commit that arrives after the local timeout writes nothing.
C9_VotesResolved ==
    /\ \A a \in Accounts : \A id \in 1..MaxTransfers :
          (id \in Pending(a)) ~> (id \notin Pending(a))
    /\ [][\A a \in Accounts :
             /\ ParticipantMonitorTimeout(a) =>
                   /\ accounts' = accounts
                   /\ \A id \in Pending(a) :
                         participant_transactions[a][id].age > timeout
                         => id \notin Pending(a)'
             /\ accounts'[a] # accounts[a] =>
                   \E id \in Pending(a) :
                       /\ <<a, id>> \in committed_at'
                       /\ id \notin Pending(a)']_vars

\* C9 witness: a participant's monitor_timeout, and no handle_abort call, has
\* removed a vote.
C9_Witness ==
    \E a \in Accounts :
        /\ Pending(a) = {}
        /\ aborts_sent = {}
        /\ \E i \in 1..Len(log[a]) : log[a][i].state = "abort"

\* C10: recover() of a participant without pending votes, with get_logs
\* answered, leaves the ledger at the balance of the last commit record for the
\* account in the coordinator's log.
C10_RecoverConverges ==
    [][\A r \in recoveries' \ recoveries :
          (/\ r.outcome = "ok"
           /\ Pending(r.account_id) = {}
           /\ CommitRecords(log[Coordinator], r.account_id) # <<>>)
          => LET records == CommitRecords(log[Coordinator], r.account_id)
             IN accounts'[r.account_id] = records[Len(records)].account_balance]_vars

\* The balances proposed by transaction id: those of the transfer that opened it.
Proposed(id) ==
    {new_balances(x) : x \in {y \in {threads[t] : t \in Threads} \cup returned :
                                 y.op = "transfer" /\ y.opened = id}}

\* The coordinator ended transaction id by propose_abort / by a propose_commit
\* that reached line 217.
EndedByAbort(id) == id \in deleted /\ \E a \in Accounts : <<id, a>> \in aborts_sent

EndedByCommit(id) == id \in deleted /\ \A a \in Accounts : <<id, a>> \notin aborts_sent

\* C11: after a recover() that got the coordinator's log, the participant's
\* ledger holds the new balance of the last transaction the coordinator ended by
\* commit, if there is one, and does not hold the proposed balance of any
\* transaction the coordinator ended by abort.
C11_RecoverTrueBalance ==
    [][\A r \in recoveries' \ recoveries :
          r.outcome = "ok" =>
             /\ \A id \in deleted :
                   EndedByAbort(id) =>
                      \A proposed \in Proposed(id) :
                          accounts'[r.account_id] # proposed[r.account_id]
             /\ \A id \in deleted :
                   (EndedByCommit(id) /\ \A other \in deleted :
                                            EndedByCommit(other) => other <= id)
                   => \A proposed \in Proposed(id) :
                          accounts'[r.account_id] = proposed[r.account_id]]_vars

\* C12: whatever the coordinator's log and the ledger hold and whatever happens
\* to the two get_logs calls, a second recover() against the same log leaves the
\* ledger where the first one left it.
C12_RecoverIdempotent ==
    \A a \in Accounts : \A first, second \in RpcOutcomes :
        LET once == recover(Node(a), rpc_call(first, log[Coordinator]))
            twice == recover(once, rpc_call(second, log[Coordinator]))
        IN twice.balance = once.balance

\* C12 witness: recover() has run with the log answered on a participant for
\* which the coordinator's log holds a commit record that differs from the ledger.
C12_Witness ==
    \E r \in recoveries :
        /\ r.outcome = "ok"
        /\ \E i \in 1..Len(log[Coordinator]) :
              /\ log[Coordinator][i].state = "commit"
              /\ log[Coordinator][i].account_id = r.account_id
              /\ log[Coordinator][i].account_balance # accounts[r.account_id]

\* C13: handle_prepare with a negative balance answers canPrepare = false, leaves
\* the ledger and the pending votes as they are, and appends one abort record
\* that carries the ledger's balance.
C13_RefusalLogged ==
    \A a \in Accounts : \A new_balance \in {-100, -50} :
      \A transaction_id \in 1..(MaxTransfers + 1) :
        LET st == handle_prepare(Node(a), new_balance, transaction_id)
        IN /\ st.ret.result.canPrepare = FALSE
           /\ st.balance = accounts[a]
           /\ st.transactions = participant_transactions[a]
           /\ Len(st.log) = Len(log[a]) + 1
           /\ SubSeq(st.log, 1, Len(log[a])) = log[a]
           /\ st.log[Len(st.log)].state = "abort"
           /\ st.log[Len(st.log)].account_id = a
           /\ st.log[Len(st.log)].account_balance = accounts[a]

\* A handle_commit call answered canCommit = false and changed nothing.
Refused(before, after) ==
    /\ after.ret.result.canCommit = FALSE
    /\ after.balance = before.balance
    /\ after.transactions = before.transactions
    /\ after.log = before.log

\* C14: handle_commit for an id without a pending vote answers canCommit = false
\* and leaves ledger, pending votes and log as they are; for a pending id it
\* writes the balance stored with the vote, removes that vote only and answers
\* canCommit = true, and a second handle_commit for the id is refused.
C14_CommitOnce ==
    \A a \in Accounts : \A transaction_id \in 1..(MaxTransfers + 1) :
        LET st == handle_commit(Node(a), transaction_id)
        IN IF transaction_id \notin Pending(a)
           THEN Refused(Node(a), st)
           ELSE /\ st.ret.result.canCommit = TRUE
                /\ st.balance = participant_transactions[a][transaction_id].new_balance
                /\ st.transactions = Remove(participant_transactions[a], transaction_id)
                /\ Refused([st EXCEPT !.ret = None_], handle_commit(st, transaction_id))

\* C14 witness: a handle_commit has written the proposed balance of a
\* transaction to a ledger and the vote is gone.
C14_Witness ==
    \E a \in Accounts : \E id \in 1..transaction_counter :
        /\ <<a, id>> \in committed_at
        /\ id \notin Pending(a)
        /\ \E proposed \in Proposed(id) : accounts[a] = proposed[a]

\* C15: add_bonus with a negative percentage returns its failure outcome in the
\* step it is called: no thread ever works on a negative bonus, the operation
\* opened no transaction, and the step that returns it leaves the transaction
\* counter, the transaction table, the logs, the ledgers and the pending votes
\* unchanged and makes no rpc_call.
C15_NegativeBonusRejected ==
    [][/\ \A t \in Threads :
             threads'[t].op = "add_bonus" => threads'[t].bonus_percentage >= 0
       /\ \A r \in returned' \ returned :
             (r.op = "add_bonus" /\ r.bonus_percentage < 0)
             => /\ r.result = BonusInvalid
                /\ r.opened = 0
                /\ ~r.faults
                /\ UNCHANGED <<transaction_counter, transactions, log, accounts,
                               participant_transactions, incidents, no_votes,
                               aborts_sent, committed_at>>]_vars

\* C15 witness: an add_bonus with a negative percentage has returned.
C15_Witness ==
    \E r \in returned :
        r.op = "add_bonus" /\ r.bonus_percentage < 0 /\ r.result = BonusInvalid

\* C16: the transaction an add_bonus(p) opens proposes A + p*A and B + p*A, and
\* an add_bonus that runs alone, with every rpc_call answered and both
\* participants accepting, returns with the ledgers at the proposed balances
\* (1100 and 600 for A = 1000, B = 500, p = 0.1).
C16_BonusScenario ==
    [][\A t \in Threads :
          threads[t].op = "add_bonus" =>
             /\ (threads[t].pc = "open" /\ threads'[t].pc = "prepare")
                => transactions'[transaction_counter'].new_balances
                      = [A |-> threads[t].balance_A
                                 + (threads[t].bonus_percentage * threads[t].balance_A) \div 100,
                         B |-> threads[t].balance_B
                                 + (threads[t].bonus_percentage * threads[t].balance_A) \div 100]
             /\ (/\ Returning(t)
                 /\ ~threads[t].faults
                 /\ incidents' = 0
                 /\ transaction_counter' = 1
                 /\ returned = {}
                 /\ \A u \in Threads \ {t} : threads[u].pc = "idle")
                => accounts' = new_balances(threads[t])]_vars

\* C17: a transfer or add_bonus whose read of a starting balance fails (error or
\* timeout) returns a failure outcome in that step, having opened no
\* transaction: the transaction counter, the transaction table, the logs, the
\* ledgers and the pending votes are left as they were and no prepare is sent.
C17_ReadFailureOpensNothing ==
    [][\A t \in Threads :
          (/\ threads[t].pc \in {"read_A", "read_B"}
           /\ threads'[t] # threads[t]
           /\ incidents' # incidents)
          => /\ threads'[t].pc = "idle"
             /\ \E r \in returned' :
                   /\ r.op = threads[t].op
                   /\ r.result \in {Failed, TimedOut, BonusFailed, BonusTimedOut}
                   /\ r.opened = 0
                   /\ r.faults /\ ~r.prepare_fault
             /\ \A r \in returned' \ returned :
                   r.result \in {Failed, TimedOut, BonusFailed, BonusTimedOut}
                   /\ r.opened = 0
             /\ UNCHANGED <<transaction_counter, transactions, log, accounts,
                            participant_transactions, no_votes>>]_vars

\* C17 witness: an add_bonus has returned after a balance read that timed out,
\* while a transfer had a transaction open.
C17_Witness ==
    /\ \E r \in returned :
          /\ r.op = "add_bonus" /\ r.bonus_percentage >= 0
          /\ r.faults /\ r.timed_out /\ r.opened = 0
          /\ r.result = BonusFailed
    /\ \E t \in Threads : threads[t].op = "transfer" /\ threads[t].opened = 1
    /\ transaction_counter = 1

\* C18: a transfer one of whose balance reads or prepare calls timed out returns
\* the timeout outcome, which is not the generic failure outcome.
C18_TimeoutOutcome ==
    \A r \in returned :
        (r.op = "transfer" /\ r.timed_out) =>
           /\ r.result = TimedOut
           /\ r.result # Failed

\* C19: every transaction that propose_prepare adds to the coordinator's table
\* is eventually removed from it.
C19_TransactionsRemoved ==
    \A id \in 1..MaxTransfers :
        (id \in DOMAIN transactions) ~> (id \notin DOMAIN transactions)

\* C20: when the handle_commit call of a propose_commit raises, times out or
\* finds no pending vote, propose_commit sends no further commit and goes on with
\* propose_abort; when that propose_commit returns, abort has been sent to every
\* participant, the record is deleted, and the call does not answer True.
C20_CommitFailureAborts ==
    [][\A t \in Threads :
          LET id == threads[t].transaction_id
          IN /\ (/\ threads[t].pc = "commit"
                 /\ threads'[t] # threads[t]
                 /\ \/ incidents' # incidents
                    \/ id \notin Pending(participants[threads[t].idx]))
                => /\ threads'[t].pc # "commit"
                   /\ \A a \in Accounts :
                         <<a, id>> \in committed_at' \ committed_at
                         => a = participants[threads[t].idx]
                   /\ IF threads'[t].pc = "abort"
                      THEN threads'[t].idx = 1 /\ threads'[t].transaction_id = id
                      ELSE id \in deleted'
             /\ (/\ Returning(t)
                 /\ threads[t].op = "propose_commit"
                 /\ threads[t].pc = "abort")
                => /\ id \notin DOMAIN transactions'
                   /\ id \in deleted'
                   /\ \A a \in Accounts : <<id, a>> \in aborts_sent'
                   /\ \A r \in returned' \ returned : r.result # "True"]_vars

\* C20 witness: a propose_commit whose handle_commit call to the first
\* participant raised or timed out has logged abort and is about to send it.
C20_Witness ==
    \E t \in Threads :
        /\ threads[t].op = "propose_commit"
        /\ threads[t].pc = "abort"
        /\ threads[t].idx = 1
        /\ threads[t].faults
        /\ threads[t].transaction_id \in DOMAIN transactions
        /\ <<"B", threads[t].transaction_id>> \notin committed_at

\* C21: propose_abort on a transaction of the table logs an abort record with
\* the participant's pre-transaction balance before each handle_abort call, goes
\* on to the next participant whatever became of the call (answered, timed out,
\* lost or failed), and after the last participant returns with the record
\* deleted from the table; a direct caller gets None, never an exception.
C21_AbortReachesEveryone ==
    [][\A t \in Threads :
          LET th == threads[t]
              now == threads'[t]
              id == th.transaction_id
          IN /\ (th.pc # "abort" /\ now.pc = "abort") =>
                   /\ now.transaction_id \in DOMAIN transactions
                   /\ now.idx = 1
                   /\ log'[Coordinator] =
                         Append(log[Coordinator],
                                LogEntry("abort", participants[1],
                                         transactions[now.transaction_id].old_balances[participants[1]],
                                         "null"))
             /\ (th.pc = "abort" /\ now # th) =>
                   /\ <<id, participants[th.idx]>> \in aborts_sent'
                   /\ IF th.idx < Len(participants)
                      THEN /\ now.pc = "abort"
                           /\ now.idx = th.idx + 1
                           /\ now.transaction_id = id
                           /\ log'[Coordinator] =
                                 Append(log[Coordinator],
                                        LogEntry("abort", participants[th.idx + 1],
                                                 th.transaction.old_balances[participants[th.idx + 1]],
                                                 "null"))
                      ELSE /\ id \notin DOMAIN transactions'
                           /\ now.pc = "idle"
                           /\ \A a \in Accounts : <<id, a>> \in aborts_sent'
                           /\ th.op = "propose_commit" =>
                                 \E r \in returned' : r.op = "propose_commit" /\ r.result = "None"]_vars

\* A propose_abort about to contact B after its handle_abort call to A was sent
\* and never ran there (A has logged no abort).
C21_Witness ==
    \E t \in Threads :
       /\ threads[t].pc = "abort"
       /\ threads[t].idx = 2
       /\ <<threads[t].transaction_id, "A">> \in aborts_sent
       /\ \A i \in 1..Len(log["A"]) : log["A"][i].state # "abort"

\* The coordinator's log holds a record of the phase for the participant with
\* the balance.
Logged(phase, a, balance) ==
    \E i \in 1..Len(log[Coordinator]) :
       log[Coordinator][i] = LogEntry(phase, a, balance, "null")

C23_OwnTransaction ==
    [][\A t \in Threads :
          LET th == threads[t]
              now == threads'[t]
          IN /\ (th.pc = "open" /\ now # th) =>
                   /\ now.opened > transaction_counter
                   /\ now.opened \notin DOMAIN transactions
                   /\ \A u \in Threads : now.opened > threads[u].opened
             /\ (th.pc = "prepare" /\ now # th) =>
                   /\ \A id \in DOMAIN transactions \cap DOMAIN transactions' :
                         transactions'[id].responses # transactions[id].responses
                            => id = th.opened
                   /\ \A a \in Accounts : \A id \in DOMAIN participant_transactions'[a] :
                         (\/ id \notin DOMAIN participant_transactions[a]
                          \/ participant_transactions'[a][id].new_balance
                                # participant_transactions[a][id].new_balance)
                            => /\ id = th.opened
                               /\ participant_transactions'[a][id].new_balance
                                     = new_balances(th)[a]
                   /\ now.pc \in {"commit", "abort"} => now.transaction_id = th.opened]_vars

\* C24: a handle_commit that has written the ledger for a transaction id ends
\* by removing the pending entry of that id and answering canCommit=true, also
\* when the participant's monitor_timeout or a handle_abort for the same id ran
\* meanwhile: no commit that changed the ledger ends in an error.
C24_CommitAtomic ==
    [][\A t \in Threads :
          LET th == threads[t]
              a == participants[th.idx]
              id == th.transaction_id
          IN (th.pc = "commit_del" /\ threads'[t] # th) =>
                /\ <<a, id>> \in committed_at
                /\ id \in Pending(a)
                /\ ~IsRaised(handle_commit_del(Node(a), id).ret)]_vars

\* C25: the event log of every node only grows: in every step the log after
\* the step is the log before it with zero or more records appended, so no
\* record is lost, rewritten or reordered, also when several threads append.
C25_LogOnlyGrows ==
    [][\A n \in Nodes :
          /\ Len(log'[n]) >= Len(log[n])
          /\ SubSeq(log'[n], 1, Len(log[n])) = log[n]]_vars

\* Every ledger write of a handler call comes after a log record of the same
\* call that carries the balance written.
LoggedFirst(effects) ==
    \A i \in 1..Len(effects) :
       effects[i].kind = "ledger" =>
          \E j \in 1..(i - 1) : effects[j] = [kind |-> "log", balance |-> effects[i].balance]

\* A handler call that leaves the ledger alone.
LedgerKept(a, st) ==
    /\ st.balance = accounts[a]
    /\ \A i \in 1..Len(st.effects) : st.effects[i].kind # "ledger"

C27_AbortRemovesOne ==
    \A a \in Accounts :
       /\ \A transaction_id \in Pending(a) \cup {NoId} :
             LET st == handle_abort(Node(a), transaction_id)
             IN /\ st.balance = accounts[a]
                /\ st.log = Append(log[a], LogEntry("abort", a, accounts[a],
                                                    "Transaction aborted"))
       /\ \A transaction_id \in Pending(a) :
             handle_abort(Node(a), transaction_id).transactions
                = Remove(participant_transactions[a], transaction_id)
       /\ handle_abort(Node(a), NoId).transactions = EmptyDict

====
